---- MODULE Spec2Model ----
(***************************************************************************)
(* Pet-catalog service: the relational repository adapter (PostgresClient) *)
(* of src/lib/outbound/repository.rs, run by concurrent callers against    *)
(* one shared store of five tables.  Every storage statement of add_pet    *)
(* and find_pet_by_id is one step, so calls interleave statement by        *)
(* statement, a statement may fail, and a caller may abandon its call.     *)
(*                                                                         *)
(* Option<T> is a sequence of length at most one: None is <<>>, Some(x) is *)
(* <<x>>.  The same encoding stands for SQL NULL in a column.              *)
(*                                                                         *)
(* Two more machines stand beside the repository: the HTTP handlers of     *)
(* src/lib/inbound/http/handlers with the validating value objects they    *)
(* apply (SpecHttp), and the Service of src/lib/domain/petstore/service.rs *)
(* over the in-memory repository of its tests (SpecMock).  Each            *)
(* specification moves its own variables and leaves the others alone.      *)
(***************************************************************************)
EXTENDS Integers, Sequences, FiniteSets, TLC

VARIABLES schema, pets, categories, tags, pet_photos, pet_tags,
          call, calls, failures
\* the HTTP adapter, and the Service over the in-memory repository
VARIABLES http, unknown_log, store, lock, svc, mcalls, tally
\* the connection pool of the PostgresClient and the operations that use it
VARIABLES pool, conn

tables == <<pets, categories, tags, pet_photos, pet_tags>>
\* the relational repository and its callers
repository == <<schema, pets, categories, tags, pet_photos, pet_tags,
                call, calls, failures>>
httpvars == <<http, unknown_log>>
mockvars == <<store, lock, svc, mcalls, tally>>
poolvars == <<pool, conn>>
adapters == <<httpvars, mockvars, poolvars>>
vars == <<repository, httpvars, mockvars, poolvars>>

(* ------------------------------ bounds --------------------------------- *)
\* concurrent request-handling execution contexts
NumCallers == 2
\* add_pet calls started in one behaviour
MaxCalls == 2
\* storage statements that fail, or calls abandoned, in one behaviour
MaxFailures == 1

Callers == 1..NumCallers

(* ------------------------------ Option --------------------------------- *)
None == <<>>
Some(x) == <<x>>
IsSome(o) == Len(o) = 1
IsNone(o) == Len(o) = 0
Unwrap(o) == o[1]

Range(s) == {s[i] : i \in 1..Len(s)}

(* ------------------------------ domain model --------------------------- *)
\* enum Status
Status == {"Available", "Pending", "Sold"}

\* Status::to_str
to_str(s) ==
  CASE s = "Available" -> "available"
    [] s = "Pending" -> "pending"
    [] s = "Sold" -> "sold"

\* Status::default
StatusDefault == "Available"

\* Category::with_values / Tag::with_values
with_values(id, name) == [id |-> Some(id), name |-> Some(name)]

\* Category::new / Tag::new
NewCategory == [id |-> None, name |-> None]

\* Pet::new
PetNew(name) ==
  [id |-> None, name |-> name, category |-> None, photo_urls |-> <<>>,
   tags |-> <<>>, status |-> Some(StatusDefault)]

\* Pet::set_category, add_photo, add_tag, set_status
set_category(pet, category) == [pet EXCEPT !.category = Some(category)]
add_photo(pet, url) == [pet EXCEPT !.photo_urls = Append(@, url)]
add_tag(pet, tag) == [pet EXCEPT !.tags = Append(@, tag)]
set_status(pet, status) == [pet EXCEPT !.status = Some(status)]

RECURSIVE add_photos(_, _)
add_photos(pet, urls) ==
  IF urls = <<>> THEN pet ELSE add_photos(add_photo(pet, Head(urls)), Tail(urls))

RECURSIVE add_tags(_, _)
add_tags(pet, ts) ==
  IF ts = <<>> THEN pet ELSE add_tags(add_tag(pet, Head(ts)), Tail(ts))

\* CreatePetRequest::new
CreatePetRequest(id, name, category, photo_urls, tgs, status) ==
  [id |-> id, name |-> name, category |-> category, photo_urls |-> photo_urls,
   tags |-> tgs, status |-> status]


(* ------------------------------ the store ------------------------------ *)
(* The five tables of the relational store.  A table is the sequence of its *)
(* rows in insertion order.  The migrations that declare the tables are not *)
(* among the sources, so the declared constraints are a parameter fixed at  *)
(* start-up: schema.keys says that pets.id, categories.id and tags.id are   *)
(* primary keys (NOT NULL and unique), schema.notnull that pets.status,     *)
(* categories.name and tags.name are NOT NULL.  The unique indexes that the *)
(* two ON CONFLICT clauses name (categories.id, tags.name) always exist.    *)
Schemas == [keys : BOOLEAN, notnull : BOOLEAN]

\* the outcome of a statement: the table after it, whether the statement and
\* the decoding of its result succeeded, and the value it returned
Outcome(rows, ok, id) == [rows |-> rows, ok |-> ok, id |-> id]

\* mutant: the existence query compares the name with the wrong column
PetExistsWrongColumn(name) == \E k \in 1..Len(pets) : pets[k].status = Some(name)

\* mutant: the existence query also counts the names that calls in flight
\* have checked and not yet inserted
PetExistsOrInFlight(name) ==
  \/ \E k \in 1..Len(pets) : pets[k].name = name
  \/ \E c \in Callers : call[c].pc \in {"category", "pet"} /\ call[c].req.name = name

\* SELECT EXISTS(SELECT 1 FROM pets WHERE name = $1)
PetExists(name) == \E k \in 1..Len(pets) : pets[k].name = name

\* mutant: the category upsert leaves the name of a stored category alone
UpsertCategoryKeepName(id, name) ==
  IF IsNone(name) /\ schema.notnull THEN Outcome(categories, FALSE, None)
  ELSE IF IsNone(id) THEN Outcome(categories, FALSE, None)
  ELSE IF \E k \in 1..Len(categories) : categories[k].id = id
    THEN Outcome(categories, TRUE, id)
  ELSE Outcome(Append(categories, [id |-> id, name |-> name]), TRUE, id)

\* INSERT INTO categories (id, name) VALUES ($1, $2)
\*   ON CONFLICT (id) DO UPDATE SET name = EXCLUDED.name RETURNING id   (as i64)
UpsertCategory(id, name) ==
  IF IsNone(name) /\ schema.notnull THEN Outcome(categories, FALSE, None)
  ELSE IF IsNone(id)
    THEN IF schema.keys THEN Outcome(categories, FALSE, None)
         ELSE Outcome(Append(categories, [id |-> id, name |-> name]), FALSE, None)
  ELSE IF \E k \in 1..Len(categories) : categories[k].id = id
    THEN Outcome([k \in 1..Len(categories) |->
                    IF categories[k].id = id
                      THEN [categories[k] EXCEPT !.name = name]
                      ELSE categories[k]], TRUE, id)
  ELSE Outcome(Append(categories, [id |-> id, name |-> name]), TRUE, id)

\* mutant: a pet inserted under a stored id takes the place of the stored row
InsertPetReplacing(id, name, category_id, status) ==
  LET row == [id |-> id, name |-> name, category_id |-> category_id,
              status |-> status]
  IN IF IsNone(status) /\ schema.notnull THEN Outcome(pets, FALSE, None)
     ELSE IF IsNone(id) THEN Outcome(pets, FALSE, None)
     ELSE IF \E k \in 1..Len(pets) : pets[k].id = id
       THEN Outcome([k \in 1..Len(pets) |->
                       IF pets[k].id = id THEN row ELSE pets[k]], TRUE, id)
     ELSE Outcome(Append(pets, row), TRUE, id)

\* INSERT INTO pets (id, name, category_id, status) VALUES ($1, $2, $3, $4)
\*   RETURNING id   (as i64)
InsertPet(id, name, category_id, status) ==
  LET row == [id |-> id, name |-> name, category_id |-> category_id,
              status |-> status]
  IN IF IsNone(status) /\ schema.notnull THEN Outcome(pets, FALSE, None)
     ELSE IF IsNone(id)
       THEN IF schema.keys THEN Outcome(pets, FALSE, None)
            ELSE Outcome(Append(pets, row), FALSE, None)
     ELSE IF schema.keys /\ \E k \in 1..Len(pets) : pets[k].id = id
       THEN Outcome(pets, FALSE, None)
     ELSE Outcome(Append(pets, row), TRUE, id)

\* INSERT INTO pet_photos (pet_id, url) VALUES ($1, $2)
InsertPhoto(pet_id, url) == Append(pet_photos, [pet_id |-> pet_id, url |-> url])

\* mutant: the tag upsert resolves conflicts on the id, so that a name may
\* be stored under several ids
UpsertTagById(id, name) ==
  IF IsNone(id) THEN Outcome(tags, FALSE, None)
  ELSE IF \E k \in 1..Len(tags) : tags[k].id = id
    THEN Outcome([k \in 1..Len(tags) |->
                    IF tags[k].id = id THEN [tags[k] EXCEPT !.name = name]
                    ELSE tags[k]], TRUE, id)
  ELSE Outcome(Append(tags, [id |-> id, name |-> name]), TRUE, id)

\* mutant: a tag stored under a new name takes the place of the stored tags
UpsertTagReplacing(id, name) ==
  IF IsNone(name) /\ schema.notnull THEN Outcome(tags, FALSE, None)
  ELSE IF IsSome(name) /\ \E k \in 1..Len(tags) : tags[k].name = name
    THEN LET k == CHOOSE k \in 1..Len(tags) : tags[k].name = name
         IN Outcome(tags, IsSome(tags[k].id), tags[k].id)
  ELSE IF IsNone(id) THEN Outcome(tags, FALSE, None)
  ELSE Outcome(<<[id |-> id, name |-> name]>>, TRUE, id)

\* INSERT INTO tags (id, name) VALUES ($1, $2)
\*   ON CONFLICT (name) DO UPDATE SET name = EXCLUDED.name RETURNING id  (as i64)
UpsertTag(id, name) ==
  IF IsNone(name) /\ schema.notnull THEN Outcome(tags, FALSE, None)
  ELSE IF IsSome(name) /\ \E k \in 1..Len(tags) : tags[k].name = name
    THEN LET k == CHOOSE k \in 1..Len(tags) : tags[k].name = name
         IN Outcome(tags, IsSome(tags[k].id), tags[k].id)
  ELSE IF IsNone(id)
    THEN IF schema.keys THEN Outcome(tags, FALSE, None)
         ELSE Outcome(Append(tags, [id |-> id, name |-> name]), FALSE, None)
  ELSE IF schema.keys /\ \E k \in 1..Len(tags) : tags[k].id = id
    THEN Outcome(tags, FALSE, None)
  ELSE Outcome(Append(tags, [id |-> id, name |-> name]), TRUE, id)

\* INSERT INTO pet_tags (pet_id, tag_id) VALUES ($1, $2)
InsertPetTag(pet_id, tag_id) ==
  Append(pet_tags, [pet_id |-> pet_id, tag_id |-> tag_id])

(* ------------------------------ results -------------------------------- *)
NoPet == PetNew("")

\* Result<Pet, CreatePetError> and Result<Option<Pet>, CreatePetError>;
\* "Panic" is a call that unwinds instead of returning
NoResult == [kind |-> "none", pet |-> NoPet, name |-> ""]
Ok(pet) == [kind |-> "Ok", pet |-> pet, name |-> ""]
OkSome(pet) == [kind |-> "OkSome", pet |-> pet, name |-> ""]
OkNone == [kind |-> "OkNone", pet |-> NoPet, name |-> ""]
Duplicate(name) == [kind |-> "Duplicate", pet |-> NoPet, name |-> name]
Unknown == [kind |-> "Unknown", pet |-> NoPet, name |-> ""]
Panic == [kind |-> "Panic", pet |-> NoPet, name |-> ""]

(* ------------------------------ inputs --------------------------------- *)
\* the id and the name of a request: two ids, two names, and an absent id
PetKeys ==
  {<<Some(1), "Rex">>, <<Some(2), "Rex">>, <<Some(1), "Buddy">>,
   <<None, "Buddy">>}
CategoryInputs ==
  {None, Some(with_values(1, "Dogs")), Some(with_values(1, "Cats")),
   Some(NewCategory)}
\* the photo URLs and the tags of a request
Payloads ==
  {<<<<>>, <<>>>>,
   <<<<"p1.jpg", "p2.jpg">>,
     <<with_values(1, "friendly"), with_values(2, "playful")>>>>,
   <<<<"p2.jpg">>, <<with_values(3, "friendly")>>>>,
   <<<<"p1.jpg", "p1.jpg">>, <<>>>>}
StatusInputs == {None, Some("Sold")}

Requests ==
  {CreatePetRequest(key[1], key[2], category, load[1], load[2], status) :
     key \in PetKeys, category \in CategoryInputs, load \in Payloads,
     status \in StatusInputs}

\* the requests of the calls that run concurrently
RaceRequests ==
  {CreatePetRequest(id, "Rex", category, load[1], load[2], Some("Sold")) :
     id \in {Some(1), Some(2)},
     category \in {None, Some(with_values(1, "Dogs"))},
     load \in {<<<<>>, <<>>>>, <<<<"p1.jpg">>, <<with_values(1, "friendly")>>>>}}

NoRequest == CreatePetRequest(None, "", None, <<>>, <<>>, None)

(* ------------------------------ calls ---------------------------------- *)
(* call[c] is the frame of caller c: the operation it runs, its position   *)
(* (the storage statement it is about to issue), its arguments and locals, *)
(* the statements it has issued so far and, at "done", its result.         *)
IdleCall ==
  [op |-> "none", pc |-> "idle", req |-> NoRequest, find_id |-> 0,
   category_id |-> None, pet_id |-> 0, i |-> 0, tag_id |-> 0,
   pet |-> NoPet, trace |-> <<>>, result |-> NoResult]

AddPcs == {"exists", "category", "pet", "photo", "tag", "link"}
FindPcs == {"find_pet", "find_photos", "find_tags"}

Issued(c, stmt, ok) == Append(call[c].trace, [stmt |-> stmt, ok |-> ok])

\* the Pet that add_pet assembles from the request and the generated id
ReturnedPet(req, pet_id) ==
  LET p0 == [PetNew(req.name) EXCEPT !.id = Some(pet_id)]
      p1 == IF IsSome(req.category) THEN set_category(p0, Unwrap(req.category))
            ELSE p0
      p2 == add_photos(p1, req.photo_urls)
      p3 == add_tags(p2, req.tags)
  IN IF IsSome(req.status) THEN set_status(p3, Unwrap(req.status)) ELSE p3

\* the position after the photo loop: the tag loop, or the end of add_pet
AfterPhotos(f) ==
  IF f.req.tags # <<>> THEN [f EXCEPT !.pc = "tag", !.i = 1]
  ELSE [f EXCEPT !.pc = "done", !.result = Ok(ReturnedPet(f.req, f.pet_id))]

\* the position after the pet insert: the photo loop, or what follows it
AfterPet(f) ==
  IF f.req.photo_urls # <<>> THEN [f EXCEPT !.pc = "photo", !.i = 1]
  ELSE AfterPhotos(f)

\* mutant: a statement's error is reported as a duplicate name
FailedAsDuplicate(f) ==
  [f EXCEPT !.pc = "done", !.result = Duplicate(f.req.name)]

\* a statement's error: map_err(Unknown) and ?
Failed(f) == [f EXCEPT !.pc = "done", !.result = Unknown]

\* a caller starts add_pet(req)
AddPet(c, r) ==
  /\ call[c].pc = "idle"
  /\ calls < MaxCalls
  /\ call' = [call EXCEPT ![c] = [IdleCall EXCEPT !.op = "add", !.pc = "exists",
                                                  !.req = r]]
  /\ calls' = calls + 1
  /\ UNCHANGED <<adapters, schema, tables, failures>>

\* mutant: the existence check runs and its answer is not acted on
ExistenceCheckNoReturn(c) ==
  /\ call[c].pc = "exists"
  /\ LET f == [call[c] EXCEPT !.trace = Issued(c, "exists", TRUE)]
     IN call' = [call EXCEPT ![c] =
          IF IsSome(f.req.category) THEN [f EXCEPT !.pc = "category"]
          ELSE [f EXCEPT !.pc = "pet"]]
  /\ UNCHANGED <<adapters, schema, tables, calls, failures>>

\* the existence check, and the Duplicate return
ExistenceCheck(c) ==
  /\ call[c].pc = "exists"
  /\ LET f == [call[c] EXCEPT !.trace = Issued(c, "exists", TRUE)]
     IN call' = [call EXCEPT ![c] =
          IF PetExists(f.req.name)
            THEN [f EXCEPT !.pc = "done", !.result = Duplicate(f.req.name)]
          ELSE IF IsSome(f.req.category) THEN [f EXCEPT !.pc = "category"]
          ELSE [f EXCEPT !.pc = "pet"]]
  /\ UNCHANGED <<adapters, schema, tables, calls, failures>>

\* the category upsert
CategoryUpsert(c) ==
  /\ call[c].pc = "category"
  /\ LET category == Unwrap(call[c].req.category)
         r == UpsertCategory(category.id, category.name)
         f == [call[c] EXCEPT !.trace = Issued(c, "category", r.ok)]
     IN /\ categories' = r.rows
        /\ call' = [call EXCEPT ![c] =
             IF r.ok THEN [f EXCEPT !.pc = "pet", !.category_id = r.id]
             ELSE Failed(f)]
  /\ UNCHANGED <<adapters, schema, pets, tags, pet_photos, pet_tags, calls, failures>>

\* the pet insert
PetInsert(c) ==
  /\ call[c].pc = "pet"
  /\ LET req == call[c].req
         status == IF IsSome(req.status) THEN Some(to_str(Unwrap(req.status)))
                   ELSE None
         r == InsertPet(req.id, req.name, call[c].category_id, status)
         f == [call[c] EXCEPT !.trace = Issued(c, "pet", r.ok)]
     IN /\ pets' = r.rows
        /\ call' = [call EXCEPT ![c] =
             IF r.ok THEN AfterPet([f EXCEPT !.pet_id = Unwrap(r.id)])
             ELSE Failed(f)]
  /\ UNCHANGED <<adapters, schema, categories, tags, pet_photos, pet_tags, calls, failures>>

\* mutant: a photo URL that the pet already has is not stored again
PhotoInsertDistinct(c) ==
  /\ call[c].pc = "photo"
  /\ LET f == [call[c] EXCEPT !.trace = Issued(c, "photo", TRUE)]
         row == [pet_id |-> f.pet_id, url |-> f.req.photo_urls[f.i]]
     IN /\ pet_photos' =
             IF \E k \in 1..Len(pet_photos) : pet_photos[k] = row
               THEN pet_photos
             ELSE InsertPhoto(row.pet_id, row.url)
        /\ call' = [call EXCEPT ![c] =
             IF f.i < Len(f.req.photo_urls) THEN [f EXCEPT !.i = f.i + 1]
             ELSE AfterPhotos(f)]
  /\ UNCHANGED <<adapters, schema, pets, categories, tags, pet_tags, calls, failures>>

\* one round of the photo loop
PhotoInsert(c) ==
  /\ call[c].pc = "photo"
  /\ LET f == [call[c] EXCEPT !.trace = Issued(c, "photo", TRUE)]
     IN /\ pet_photos' = InsertPhoto(f.pet_id, f.req.photo_urls[f.i])
        /\ call' = [call EXCEPT ![c] =
             IF f.i < Len(f.req.photo_urls) THEN [f EXCEPT !.i = f.i + 1]
             ELSE AfterPhotos(f)]
  /\ UNCHANGED <<adapters, schema, pets, categories, tags, pet_tags, calls, failures>>

\* the first statement of one round of the tag loop
TagUpsert(c) ==
  /\ call[c].pc = "tag"
  /\ LET tag == call[c].req.tags[call[c].i]
         r == UpsertTag(tag.id, tag.name)
         f == [call[c] EXCEPT !.trace = Issued(c, "tag", r.ok)]
     IN /\ tags' = r.rows
        /\ call' = [call EXCEPT ![c] =
             IF r.ok THEN [f EXCEPT !.pc = "link", !.tag_id = Unwrap(r.id)]
             ELSE Failed(f)]
  /\ UNCHANGED <<adapters, schema, pets, categories, pet_photos, pet_tags, calls, failures>>

\* the second statement of one round of the tag loop
TagLink(c) ==
  /\ call[c].pc = "link"
  /\ LET f == [call[c] EXCEPT !.trace = Issued(c, "link", TRUE)]
     IN /\ pet_tags' = InsertPetTag(f.pet_id, f.tag_id)
        /\ call' = [call EXCEPT ![c] =
             IF f.i < Len(f.req.tags) THEN [f EXCEPT !.pc = "tag", !.i = f.i + 1]
             ELSE [f EXCEPT !.pc = "done",
                            !.result = Ok(ReturnedPet(f.req, f.pet_id))]]
  /\ UNCHANGED <<adapters, schema, pets, categories, tags, pet_photos, calls, failures>>

(* ------------------------------ find_pet_by_id ------------------------- *)
FindIds == {1, 2, 3}

\* SELECT p.id, p.name, p.status, c.id as category_id, c.name as category_name
\* FROM pets p LEFT JOIN categories c ON p.category_id = c.id WHERE p.id = $1
SelectPet(pet_id) ==
  LET Match(p) == p.id = Some(pet_id)
      Joined(p) ==
        LET On(cat) == IsSome(p.category_id) /\ cat.id = p.category_id
            cs == SelectSeq(categories, On)
        IN IF cs = <<>>
             THEN <<[id |-> p.id, name |-> p.name, status |-> p.status,
                     category_id |-> None, category_name |-> None]>>
           ELSE [k \in 1..Len(cs) |->
                   [id |-> p.id, name |-> p.name, status |-> p.status,
                    category_id |-> cs[k].id, category_name |-> cs[k].name]]
      ps == SelectSeq(pets, Match)
      RECURSIVE Rows(_)
      Rows(q) == IF q = <<>> THEN <<>> ELSE Joined(Head(q)) \o Rows(Tail(q))
  IN Rows(ps)

\* the read-side decoding of the stored status string
DecodeStatus(s) ==
  CASE s = "available" -> "Available"
    [] s = "pending" -> "Pending"
    [] s = "sold" -> "Sold"
    [] OTHER -> "Available"

\* mutant: the photo query sees no row of a pet whose add_pet is under way
SelectPhotosCommitted(pet_id) ==
  LET Match(r) == r.pet_id = pet_id
      rs == SelectSeq(pet_photos, Match)
  IN IF \E c \in Callers : /\ call[c].op = "add"
                            /\ call[c].pc \in {"photo", "tag", "link"}
                            /\ call[c].pet_id = pet_id
       THEN <<>>
     ELSE [k \in 1..Len(rs) |-> rs[k].url]

\* SELECT url FROM pet_photos WHERE pet_id = $1
SelectPhotos(pet_id) ==
  LET Match(r) == r.pet_id = pet_id
      rs == SelectSeq(pet_photos, Match)
  IN [k \in 1..Len(rs) |-> rs[k].url]

\* SELECT json_build_object('id', t.id, 'name', t.name)::text
\* FROM tags t JOIN pet_tags pt ON t.id = pt.tag_id WHERE pt.pet_id = $1,
\* decoded into TagData
SelectTags(pet_id) ==
  LET Match(r) == r.pet_id = pet_id
      links == SelectSeq(pet_tags, Match)
      RECURSIVE Rows(_)
      Rows(q) ==
        IF q = <<>> THEN <<>>
        ELSE LET On(t) == t.id = Some(Head(q).tag_id)
             IN SelectSeq(tags, On) \o Rows(Tail(q))
  IN Rows(links)

\* mutant: the pet query uses fetch_one, for which no row is an error
BuildPetFetchOne(rows) ==
  IF rows = <<>> THEN Unknown
  ELSE LET row == rows[1]
           p0 == [PetNew(row.name) EXCEPT !.id = row.id]
       IN IF IsNone(row.status) THEN Panic
          ELSE OkSome(set_status(p0, "Available"))

\* the part of find_pet_by_id between its first and its second statement:
\* None when no row matches, a panic when row.get meets a NULL status
BuildPet(rows) ==
  IF rows = <<>> THEN OkNone
  ELSE LET row == rows[1]
           p0 == [PetNew(row.name) EXCEPT !.id = row.id]
       IN IF IsNone(row.status) THEN Panic
          ELSE LET p1 == set_status(p0, DecodeStatus(Unwrap(row.status)))
               IN IF IsSome(row.category_id) /\ IsSome(row.category_name)
                    THEN OkSome(set_category(p1,
                           with_values(Unwrap(row.category_id),
                                       Unwrap(row.category_name))))
                  ELSE OkSome(p1)

RECURSIVE AddFoundTags(_, _)
\* for tag in tags { if let (Some(id), Some(name)) = .. { pet.add_tag(..) } }
AddFoundTags(pet, ts) ==
  IF ts = <<>> THEN pet
  ELSE IF IsSome(Head(ts).id) /\ IsSome(Head(ts).name)
    THEN AddFoundTags(add_tag(pet, with_values(Unwrap(Head(ts).id),
                                               Unwrap(Head(ts).name))), Tail(ts))
  ELSE AddFoundTags(pet, Tail(ts))

\* a caller starts find_pet_by_id(pet_id)
FindPetById(c, pet_id) ==
  /\ call[c].pc = "idle"
  /\ call' = [call EXCEPT ![c] = [IdleCall EXCEPT !.op = "find",
                                    !.pc = "find_pet", !.find_id = pet_id]]
  /\ UNCHANGED <<adapters, schema, tables, calls, failures>>

\* the pet query and the decoding of its row
FindPetRow(c) ==
  /\ call[c].pc = "find_pet"
  /\ LET f == [call[c] EXCEPT !.trace = Issued(c, "find_pet", TRUE)]
         r == BuildPet(SelectPet(f.find_id))
     IN call' = [call EXCEPT ![c] =
          IF r.kind = "OkSome" THEN [f EXCEPT !.pc = "find_photos", !.pet = r.pet]
          ELSE [f EXCEPT !.pc = "done", !.result = r]]
  /\ UNCHANGED <<adapters, schema, tables, calls, failures>>

\* mutant: the photo query takes the rows out of the table as it reads them
FindPhotosDeleting(c) ==
  /\ call[c].pc = "find_photos"
  /\ LET f == [call[c] EXCEPT !.trace = Issued(c, "find_photos", TRUE)]
         Others(r) == r.pet_id # f.find_id
     IN /\ call' = [call EXCEPT ![c] =
             [f EXCEPT !.pc = "find_tags",
                       !.pet = add_photos(f.pet, SelectPhotos(f.find_id))]]
        /\ pet_photos' = SelectSeq(pet_photos, Others)
  /\ UNCHANGED <<adapters, schema, pets, categories, tags, pet_tags, calls, failures>>

\* the photo query
FindPhotos(c) ==
  /\ call[c].pc = "find_photos"
  /\ LET f == [call[c] EXCEPT !.trace = Issued(c, "find_photos", TRUE)]
     IN call' = [call EXCEPT ![c] =
          [f EXCEPT !.pc = "find_tags",
                    !.pet = add_photos(f.pet, SelectPhotos(f.find_id))]]
  /\ UNCHANGED <<adapters, schema, tables, calls, failures>>

\* the tag query and the return
FindTags(c) ==
  /\ call[c].pc = "find_tags"
  /\ LET f == [call[c] EXCEPT !.trace = Issued(c, "find_tags", TRUE)]
         pet == AddFoundTags(f.pet, SelectTags(f.find_id))
     IN call' = [call EXCEPT ![c] =
          [f EXCEPT !.pc = "done", !.pet = pet, !.result = OkSome(pet)]]
  /\ UNCHANGED <<adapters, schema, tables, calls, failures>>

\* find_pet_by_id run to its end on the store as it is now
FindNow(pet_id) ==
  LET r == BuildPet(SelectPet(pet_id))
  IN IF r.kind = "OkSome"
       THEN OkSome(AddFoundTags(add_photos(r.pet, SelectPhotos(pet_id)),
                                SelectTags(pet_id)))
     ELSE r

(* ------------------------------ failures ------------------------------- *)
\* mutant: a failing statement takes the call's pet row back
StatementFailsRollingBack(c) ==
  /\ call[c].pc \in AddPcs \cup FindPcs
  /\ failures < MaxFailures
  /\ call' = [call EXCEPT ![c] =
       Failed([call[c] EXCEPT !.trace = Issued(c, call[c].pc, FALSE)])]
  /\ failures' = failures + 1
  /\ LET Others(p) == p.name # call[c].req.name
     IN pets' = SelectSeq(pets, Others)
  /\ UNCHANGED <<adapters, schema, categories, tags, pet_photos, pet_tags, calls>>

\* the statement a caller is about to issue fails in the store or on the way
\* to it: nothing is written, the error is mapped to Unknown and returned
StatementFails(c) ==
  /\ call[c].pc \in AddPcs \cup FindPcs
  /\ failures < MaxFailures
  /\ call' = [call EXCEPT ![c] =
       Failed([call[c] EXCEPT !.trace = Issued(c, call[c].pc, FALSE)])]
  /\ failures' = failures + 1
  /\ UNCHANGED <<adapters, schema, tables, calls>>

\* the calling context is dropped between two statements of its call
Abandon(c) ==
  /\ call[c].pc \in AddPcs \cup FindPcs
  /\ call[c].trace # <<>>
  /\ failures < MaxFailures
  /\ call' = [call EXCEPT ![c] = IdleCall]
  /\ failures' = failures + 1
  /\ UNCHANGED <<adapters, schema, tables, calls>>

\* the caller takes the result
Return(c) ==
  /\ call[c].pc = "done"
  /\ call' = [call EXCEPT ![c] = IdleCall]
  /\ UNCHANGED <<adapters, schema, tables, calls, failures>>

(* ------------------------------ value objects -------------------------- *)
(* The validating constructors of models/value_objects.rs.  A string that  *)
(* is trimmed is the sequence of its characters; a Result is a record of   *)
(* ok, the value (the empty value of its type on Err) and the error, and   *)
(* an error is the sequence of its variant and the data it carries.        *)
\* longest pet name of an HTTP request body, in characters
MaxNameLen == 3

\* characters with the White_Space property, and the others
WhiteSpace == {" "}
Chars == WhiteSpace \cup {"x"}

VOk(value) == [ok |-> TRUE, value |-> value, err |-> <<>>]
VErr(err, empty) == [ok |-> FALSE, value |-> empty, err |-> err]

\* str::trim_start, str::trim_end and str::trim
RECURSIVE trim_start(_)
trim_start(s) ==
  IF s # <<>> /\ Head(s) \in WhiteSpace THEN trim_start(Tail(s)) ELSE s

RECURSIVE trim_end(_)
trim_end(s) ==
  IF s # <<>> /\ s[Len(s)] \in WhiteSpace
    THEN trim_end(SubSeq(s, 1, Len(s) - 1))
    ELSE s

trim(s) == trim_end(trim_start(s))

\* mutant: the name is stored trimmed
PetNameNewTrimmed(name) ==
  IF trim(name) = <<>> THEN VErr(<<"PetNameError::Empty">>, <<>>)
  ELSE VOk(trim(name))

\* PetName::new
PetNameNew(name) ==
  IF trim(name) = <<>> THEN VErr(<<"PetNameError::Empty">>, <<>>)
  ELSE VOk(name)

\* PhotoUrls::new
PhotoUrlsNew(urls) ==
  IF urls = <<>> THEN VErr(<<"PhotoUrlsError::Empty">>, <<>>)
  ELSE VOk(urls)

\* mutant: a present but empty tag list is accepted
TagsNewLenient(tgs) ==
  IF IsSome(tgs) THEN VOk(Unwrap(tgs)) ELSE VOk(<<>>)

\* Tags::new
TagsNew(tgs) ==
  IF IsSome(tgs) /\ Unwrap(tgs) = <<>> THEN VErr(<<"TagsError::Empty">>, <<>>)
  ELSE IF IsSome(tgs) THEN VOk(Unwrap(tgs))
  ELSE VOk(<<>>)

\* mutant: an unrecognized status string resolves to the default
StatusTryFromLenient(value) ==
  IF value = Some("pending") THEN VOk("Pending")
  ELSE IF value = Some("sold") THEN VOk("Sold")
  ELSE VOk("Available")

\* impl TryFrom<Option<String>> for Status
StatusTryFrom(value) ==
  IF value = Some("available") THEN VOk("Available")
  ELSE IF value = Some("pending") THEN VOk("Pending")
  ELSE IF value = Some("sold") THEN VOk("Sold")
  ELSE IF IsSome(value)
    THEN VErr(<<"StatusError::InvalidStatus", Unwrap(value)>>, StatusDefault)
  ELSE VOk(StatusDefault)

\* impl TryFrom<Option<Category>> for Category
CategoryTryFrom(value) ==
  IF IsSome(value) THEN VOk(Unwrap(value)) ELSE VOk(NewCategory)

\* impl Display for PetNameError, PhotoUrlsError, TagsError, StatusError
\* and CategoryError (thiserror's #[error] texts)
ErrorDisplay(err) ==
  CASE err[1] = "PetNameError::Empty" -> <<"pet name cannot be empty">>
    [] err[1] = "PhotoUrlsError::Empty" -> <<"photo urls cannot be empty">>
    [] err[1] = "TagsError::Empty" -> <<"tags cannot be empty">>
    [] err[1] = "StatusError::InvalidStatus" -> <<"invalid status: ", err[2]>>
    [] err[1] = "CategoryError::InvalidCategory" -> <<"invalid category">>

(* ------------------------------ HTTP adapter --------------------------- *)
(* The two handlers of inbound/http/handlers, generic over the PetService  *)
(* port.  http is the frame of the request being handled: the body, the    *)
(* position in the handler, the values validated so far, the error of the  *)
(* validation that failed, the number of                                   *)
(* calls made to the service, what the service returned, what the handler  *)
(* returned and the response sent.  The service is any implementation of   *)
(* the port: its outcome is chosen among the results the port allows.      *)

\* what PetService::add_pet and PetService::find_pet_by_id return
NoOutcome == [kind |-> "none", pet |-> None, name |-> <<>>, cause |-> ""]
OkPet(pet) == [NoOutcome EXCEPT !.kind = "Ok", !.pet = Some(pet)]
OkFound(pet) == [NoOutcome EXCEPT !.kind = "OkFound", !.pet = pet]
ErrDuplicate(name) == [NoOutcome EXCEPT !.kind = "Duplicate", !.name = name]
ErrUnknown(cause) == [NoOutcome EXCEPT !.kind = "Unknown", !.cause = cause]

\* the texts of the anyhow::Error inside CreatePetError::Unknown
Causes == {"connection refused", "relation pets does not exist"}

\* enum ApiError
ApiError(variant, message) == [variant |-> variant, message |-> message]

\* mutant: the cause of an unknown error becomes the message
ApiErrorFromCreatePetErrorLeaking(e) ==
  IF e.kind = "Duplicate"
    THEN ApiError("UnprocessableEntity",
                  <<"pet with name ">> \o e.name \o <<" already exists">>)
    ELSE ApiError("BadRequest", <<e.cause>>)

\* impl From<CreatePetError> for ApiError
ApiErrorFromCreatePetError(e) ==
  IF e.kind = "Duplicate"
    THEN ApiError("UnprocessableEntity",
                  <<"pet with name ">> \o e.name \o <<" already exists">>)
    ELSE ApiError("InternalServerError", <<"Internal server error">>)

\* impl From<ParseCreatePetHttpRequestError> for ApiError; field is the
\* variant of ParseCreatePetHttpRequestError
ApiErrorFromParse(field, err) ==
  LET subject == CASE field = "Name" -> "pet name "
                   [] field = "Category" -> "category "
                   [] field = "PhotoUrls" -> "photo urls "
                   [] field = "Tags" -> "tags "
                   [] field = "Status" -> "status "
  IN ApiError("BadRequest", <<subject>> \o ErrorDisplay(err) \o <<" is invalid">>)

\* ApiResponseBody::new and ApiResponseBody::new_error
ApiResponseBody(status_code, data) == [status_code |-> status_code, data |-> data]
ApiErrorData(message) == [message |-> message]

\* a response: the status line and the JSON body
Response(status, body) == [status |-> status, body |-> body]
NoResponse == Response(0, ApiResponseBody(0, ApiErrorData(<<>>)))

\* impl IntoResponse for ApiError
ApiErrorIntoResponse(e) ==
  CASE e.variant = "InternalServerError" ->
         Response(500, ApiResponseBody(500, ApiErrorData(<<"Internal server error">>)))
    [] e.variant = "UnprocessableEntity" ->
         Response(422, ApiResponseBody(422, ApiErrorData(e.message)))
    [] e.variant = "BadRequest" ->
         Response(400, ApiResponseBody(400, ApiErrorData(e.message)))

\* impl From<&Pet> for CreatePetResponseData, and for FindPetResponseData
ResponseData(pet) ==
  [id |-> pet.id, name |-> pet.name, category |-> pet.category,
   photo_urls |-> pet.photo_urls, tags |-> Some(pet.tags),
   status |-> IF IsSome(pet.status) THEN Some(to_str(Unwrap(pet.status)))
              ELSE None]

\* what a handler returns: Ok(success) or Err(ApiError)
NoReturn ==
  [kind |-> "none", status |-> 0, data |-> ApiErrorData(<<>>),
   error |-> ApiError("", <<>>)]
HandlerOk(status, data) == [NoReturn EXCEPT !.kind = "Ok", !.status = status, !.data = data]
HandlerErr(e) == [NoReturn EXCEPT !.kind = "Err", !.error = e]

\* the response axum sends for what the handler returned
IntoResponse(ret) ==
  IF ret.kind = "Ok" THEN Response(ret.status, ApiResponseBody(ret.status, ret.data))
  ELSE ApiErrorIntoResponse(ret.error)

\* the pet names of the request bodies: every string of at most MaxNameLen
\* characters
NameInputs == UNION {[1..n -> Chars] : n \in 0..MaxNameLen}

TagInputs ==
  {None, Some(<<>>), Some(<<with_values(1, "friendly")>>),
   Some(<<with_values(1, "friendly"), with_values(2, "playful")>>),
   Some(<<with_values(2, "playful"), with_values(1, "friendly")>>)}

StatusStrings ==
  {None, Some("available"), Some("pending"), Some("sold"), Some("Available"),
   Some("SOLD"), Some("invalid_status")}

\* struct CreatePetHttpRequestBody
Bodies ==
  [id : {None, Some(1)}, name : NameInputs,
   category : {None, Some(with_values(1, "Dogs"))},
   photo_urls : {<<>>, <<"p1.jpg">>, <<"p1.jpg", "p2.jpg">>},
   tags : TagInputs, status : StatusStrings]

NoBody ==
  [id |-> None, name |-> <<>>, category |-> None, photo_urls |-> <<>>,
   tags |-> None, status |-> None]

HttpIdle ==
  [op |-> "none", pc |-> "idle", body |-> NoBody, pet_id |-> 0,
   name |-> <<>>, category |-> NewCategory, photo_urls |-> <<>>,
   tags |-> <<>>, domain_req |-> CreatePetRequest(None, <<>>, None, <<>>, <<>>, None),
   parse_error |-> <<>>, service_calls |-> 0, outcome |-> NoOutcome,
   ret |-> NoReturn, response |-> NoResponse]

\* the pet of the handlers' unit tests (create_mock_pet)
create_mock_pet ==
  set_status(add_tag(add_photo(set_category(PetNew(<<"x">>),
    with_values(1, "Dogs")), "p1.jpg"), with_values(1, "friendly")), "Available")

\* the results an implementation of PetService::add_pet may give for req
AddOutcomes(req) ==
  {OkPet(ReturnedPet(req, 7)), OkPet(create_mock_pet), ErrDuplicate(req.name)}
    \cup {ErrUnknown(cause) : cause \in Causes}

\* the results an implementation of PetService::find_pet_by_id gives; the
\* repositories of this program report no error but Unknown from it
FindOutcomes ==
  {OkFound(Some([create_mock_pet EXCEPT !.id = Some(10)])), OkFound(None)}
    \cup {ErrUnknown(cause) : cause \in Causes}

\* a validation of try_into_domain failed: the ? operators convert the
\* error and the handler returns it
Rejected(f, field, err) ==
  [f EXCEPT !.pc = "respond", !.parse_error = err,
            !.ret = HandlerErr(ApiErrorFromParse(field, err))]

\* axum calls add_pet with a deserialized body
HttpAddPet(body) ==
  /\ http.pc = "idle"
  /\ http' = [HttpIdle EXCEPT !.op = "add", !.pc = "name", !.body = body]
  /\ UNCHANGED <<unknown_log, repository, mockvars, poolvars>>

\* let name = PetName::new(&self.name)?
ValidateName ==
  /\ http.pc = "name"
  /\ LET r == PetNameNew(http.body.name)
     IN http' = IF r.ok THEN [http EXCEPT !.pc = "category", !.name = r.value]
                ELSE Rejected(http, "Name", r.err)
  /\ UNCHANGED <<unknown_log, repository, mockvars, poolvars>>

\* let category = Category::try_from(self.category)?
ValidateCategory ==
  /\ http.pc = "category"
  /\ LET r == CategoryTryFrom(http.body.category)
     IN http' = IF r.ok THEN [http EXCEPT !.pc = "photo_urls", !.category = r.value]
                ELSE Rejected(http, "Category", r.err)
  /\ UNCHANGED <<unknown_log, repository, mockvars, poolvars>>

\* let photo_urls = PhotoUrls::new(&self.photo_urls)?
ValidatePhotoUrls ==
  /\ http.pc = "photo_urls"
  /\ LET r == PhotoUrlsNew(http.body.photo_urls)
     IN http' = IF r.ok THEN [http EXCEPT !.pc = "tags", !.photo_urls = r.value]
                ELSE Rejected(http, "PhotoUrls", r.err)
  /\ UNCHANGED <<unknown_log, repository, mockvars, poolvars>>

\* let tags = Tags::new(&self.tags)?
ValidateTags ==
  /\ http.pc = "tags"
  /\ LET r == TagsNew(http.body.tags)
     IN http' = IF r.ok THEN [http EXCEPT !.pc = "status", !.tags = r.value]
                ELSE Rejected(http, "Tags", r.err)
  /\ UNCHANGED <<unknown_log, repository, mockvars, poolvars>>

\* mutant: an invalid status is replaced by the default and the request
\* goes on to the service
ValidateStatusForwarding ==
  /\ http.pc = "status"
  /\ LET r == StatusTryFrom(http.body.status)
     IN http' = [http EXCEPT !.pc = "service",
                   !.domain_req = CreatePetRequest(http.body.id, http.name,
                      Some(http.category), http.photo_urls, http.tags,
                      Some(r.value))]
  /\ UNCHANGED <<unknown_log, repository, mockvars, poolvars>>

\* let status = Status::try_from(self.status)?; Ok(CreatePetRequest::new(..))
ValidateStatus ==
  /\ http.pc = "status"
  /\ LET r == StatusTryFrom(http.body.status)
     IN http' = IF r.ok
                  THEN [http EXCEPT !.pc = "service",
                          !.domain_req = CreatePetRequest(http.body.id, http.name,
                             Some(http.category), http.photo_urls, http.tags,
                             Some(r.value))]
                  ELSE Rejected(http, "Status", r.err)
  /\ UNCHANGED <<unknown_log, repository, mockvars, poolvars>>

\* state.pet_service.add_pet(&domain_req).await
ServiceAddPet ==
  /\ http.pc = "service"
  /\ \E o \in AddOutcomes(http.domain_req) :
       http' = [http EXCEPT !.pc = "map", !.outcome = o,
                  !.service_calls = @ + 1]
  /\ UNCHANGED <<unknown_log, repository, mockvars, poolvars>>

\* mutant: every error of the service is answered as an internal error
MapAddPetAllInternal ==
  /\ http.pc = "map"
  /\ http.op = "add"
  /\ http' = [http EXCEPT !.pc = "respond",
       !.ret = IF http.outcome.kind = "Ok"
                 THEN HandlerOk(201, ResponseData(Unwrap(http.outcome.pet)))
                 ELSE HandlerErr(ApiError("InternalServerError",
                                          <<"Internal server error">>))]
  /\ UNCHANGED <<unknown_log, repository, mockvars, poolvars>>

\* .map_err(ApiError::from).map(|ref pet| ApiSuccess::new(CREATED, pet.into()))
MapAddPet ==
  /\ http.pc = "map"
  /\ http.op = "add"
  /\ http' = [http EXCEPT !.pc = "respond",
       !.ret = IF http.outcome.kind = "Ok"
                 THEN HandlerOk(201, ResponseData(Unwrap(http.outcome.pet)))
                 ELSE HandlerErr(ApiErrorFromCreatePetError(http.outcome))]
  /\ UNCHANGED <<unknown_log, repository, mockvars, poolvars>>

\* axum calls find_pet_by_id with the id of the path
HttpFindPetById(pet_id) ==
  /\ http.pc = "idle"
  /\ http' = [HttpIdle EXCEPT !.op = "find", !.pc = "find_service",
                !.pet_id = pet_id]
  /\ UNCHANGED <<unknown_log, repository, mockvars, poolvars>>

\* state.pet_service.find_pet_by_id(pet_id).await
ServiceFindPetById ==
  /\ http.pc = "find_service"
  /\ \E o \in FindOutcomes :
       http' = [http EXCEPT !.pc = "map", !.outcome = o,
                  !.service_calls = @ + 1]
  /\ UNCHANGED <<unknown_log, repository, mockvars, poolvars>>

\* mutant: an absent pet is reported as an error of the handler
MapFindPetByIdNotFoundAsError ==
  /\ http.pc = "map"
  /\ http.op = "find"
  /\ http' = [http EXCEPT !.pc = "respond",
       !.ret = IF http.outcome.kind = "OkFound" /\ IsSome(http.outcome.pet)
                 THEN HandlerOk(200, ResponseData(Unwrap(http.outcome.pet)))
                 ELSE HandlerErr(ApiError("InternalServerError",
                                          <<"Internal server error">>))]
  /\ UNCHANGED <<unknown_log, repository, mockvars, poolvars>>

\* .map_err(ApiError::from)? and the match on the Option
MapFindPetById ==
  /\ http.pc = "map"
  /\ http.op = "find"
  /\ http' = [http EXCEPT !.pc = "respond",
       !.ret = IF http.outcome.kind # "OkFound"
                 THEN HandlerErr(ApiErrorFromCreatePetError(http.outcome))
               ELSE IF IsSome(http.outcome.pet)
                 THEN HandlerOk(200, ResponseData(Unwrap(http.outcome.pet)))
               ELSE HandlerOk(404, ApiErrorData(
                      <<"pet with id ", ToString(http.pet_id), " not found">>))]
  /\ UNCHANGED <<unknown_log, repository, mockvars, poolvars>>

\* the handler has returned: axum turns the value into the response; the
\* responses given for unknown errors are remembered with their causes
Respond ==
  /\ http.pc = "respond"
  /\ http' = [http EXCEPT !.pc = "done", !.response = IntoResponse(http.ret)]
  /\ unknown_log' =
       IF http.outcome.kind = "Unknown"
         THEN unknown_log \cup {<<http.outcome.cause, IntoResponse(http.ret)>>}
         ELSE unknown_log
  /\ UNCHANGED <<repository, mockvars, poolvars>>

\* the response is sent and the frame of the request is dropped
HttpFinish ==
  /\ http.pc = "done"
  /\ http' = HttpIdle
  /\ UNCHANGED <<unknown_log, repository, mockvars, poolvars>>

\* the path ids of the find requests
HttpFindIds == {10, 11}

HttpNext ==
  \/ http.pc = "idle" /\ \E body \in Bodies : HttpAddPet(body)
  \/ ValidateName
  \/ ValidateCategory
  \/ ValidatePhotoUrls
  \/ ValidateTags
  \/ ValidateStatus
  \/ ServiceAddPet
  \/ MapAddPet
  \/ \E pet_id \in HttpFindIds : HttpFindPetById(pet_id)
  \/ ServiceFindPetById
  \/ MapFindPetById
  \/ Respond
  \/ HttpFinish

(* ------------------------------ Service over the in-memory repository -- *)
(* Service<R> of domain/petstore/service.rs over the MockRepository of its *)
(* tests.  Every clone of the Service holds a clone of the repository, and *)
(* all of them share one HashMap behind one Mutex: store is the map, from  *)
(* the names to the pets, and lock the clone that holds the MutexGuard (0  *)
(* when the mutex is free).  svc[c] is the frame of the call clone c runs: *)
(* how often it has called the repository, what the repository returned    *)
(* and what the Service returned.  tally counts, for each name, the        *)
(* add_pet calls that returned Ok and those that returned Duplicate.       *)
\* clones of the Service, one per execution context
NumClones == 2
\* calls started through the clones in one behaviour
MaxMockCalls == 3

Clones == 1..NumClones

MockNames == {"Luna", "Rex"}

MockRequests ==
  {CreatePetRequest(id, name, None, <<>>, <<>>, status) :
     id \in {None, Some(1)}, name \in MockNames, status \in {None, Some("Sold")}}
    \cup {CreatePetRequest(Some(10), "Rex", Some(with_values(1, "Dogs")),
                           <<"p1.jpg">>, <<with_values(0, "friendly")>>,
                           Some("Available"))}

MockFindIds == {1, 999}

SvcIdle ==
  [op |-> "none", pc |-> "idle", req |-> NoRequest, pet_id |-> 0,
   repo_calls |-> 0, repo_result |-> NoResult, result |-> NoResult]

\* the Pet MockRepository::add_pet builds from the request
MockPet(req) ==
  LET p0 == PetNew(req.name)
      p1 == IF IsSome(req.id) THEN [p0 EXCEPT !.id = req.id] ELSE p0
      p2 == IF IsSome(req.category) THEN set_category(p1, Unwrap(req.category))
            ELSE p1
      p3 == add_tags(add_photos(p2, req.photo_urls), req.tags)
  IN IF IsSome(req.status) THEN set_status(p3, Unwrap(req.status)) ELSE p3

\* HashMap::insert
MapInsert(map, key, value) ==
  [k \in DOMAIN map \cup {key} |-> IF k = key THEN value ELSE map[k]]

\* a clone calls Service::add_pet(req)
ServiceAddPetCall(c, req) ==
  /\ svc[c].pc \in {"idle", "done"}
  /\ mcalls < MaxMockCalls
  /\ svc' = [svc EXCEPT ![c] = [SvcIdle EXCEPT !.op = "add", !.pc = "repo",
                                  !.req = req]]
  /\ mcalls' = mcalls + 1
  /\ UNCHANGED <<store, lock, tally, repository, httpvars, poolvars>>

\* a clone calls Service::find_pet_by_id(pet_id)
ServiceFindCall(c, pet_id) ==
  /\ svc[c].pc \in {"idle", "done"}
  /\ mcalls < MaxMockCalls
  /\ svc' = [svc EXCEPT ![c] = [SvcIdle EXCEPT !.op = "find", !.pc = "repo",
                                  !.pet_id = pet_id]]
  /\ mcalls' = mcalls + 1
  /\ UNCHANGED <<store, lock, tally, repository, httpvars, poolvars>>

\* mutant: the guard is taken although another clone holds it
MockLockNoExclusion(c) ==
  /\ svc[c].pc = "repo"
  /\ lock' = c
  /\ svc' = [svc EXCEPT ![c].pc = IF svc[c].op = "add" THEN "check" ELSE "values",
                        ![c].repo_calls = @ + 1]
  /\ UNCHANGED <<store, mcalls, tally, repository, httpvars, poolvars>>

\* self.repo.<operation>(..) begins: self.pets.lock().unwrap()
MockLock(c) ==
  /\ svc[c].pc = "repo"
  /\ lock = 0
  /\ lock' = c
  /\ svc' = [svc EXCEPT ![c].pc = IF svc[c].op = "add" THEN "check" ELSE "values",
                        ![c].repo_calls = @ + 1]
  /\ UNCHANGED <<store, mcalls, tally, repository, httpvars, poolvars>>

\* if pets.contains_key(&req.name) { return Err(Duplicate) }; the guard is
\* dropped on return
MockContainsKey(c) ==
  /\ svc[c].pc = "check"
  /\ IF svc[c].req.name \in DOMAIN store
       THEN /\ svc' = [svc EXCEPT ![c].pc = "returned",
                         ![c].repo_result = Duplicate(svc[c].req.name)]
            /\ lock' = 0
       ELSE /\ svc' = [svc EXCEPT ![c].pc = "insert"]
            /\ lock' = lock
  /\ UNCHANGED <<store, mcalls, tally, repository, httpvars, poolvars>>

\* pets.insert(req.name.clone(), pet.clone()); Ok(pet)
MockInsert(c) ==
  /\ svc[c].pc = "insert"
  /\ LET pet == MockPet(svc[c].req)
     IN /\ store' = MapInsert(store, svc[c].req.name, pet)
        /\ svc' = [svc EXCEPT ![c].pc = "returned", ![c].repo_result = Ok(pet)]
  /\ lock' = 0
  /\ UNCHANGED <<mcalls, tally, repository, httpvars, poolvars>>

\* pets.values().find(|p| p.id == Some(pet_id)).cloned(): the first match
\* in the iteration order of the HashMap, which is unspecified
MockFindValues(c) ==
  /\ svc[c].pc = "values"
  /\ LET found == {n \in DOMAIN store : store[n].id = Some(svc[c].pet_id)}
     IN IF found = {}
          THEN svc' = [svc EXCEPT ![c].pc = "returned", ![c].repo_result = OkNone]
          ELSE \E n \in found :
                 svc' = [svc EXCEPT ![c].pc = "returned",
                           ![c].repo_result = OkSome(store[n])]
  /\ lock' = 0
  /\ UNCHANGED <<store, mcalls, tally, repository, httpvars, poolvars>>

\* the count of the finished add_pet calls after one more result
Tallied(t, f, result) ==
  IF f.op # "add" THEN t
  ELSE IF result.kind = "Ok" THEN [t EXCEPT ![f.req.name].ok = @ + 1]
  ELSE IF result.kind = "Duplicate" /\ result.name = f.req.name
    THEN [t EXCEPT ![f.req.name].dup = @ + 1]
  ELSE [t EXCEPT ![f.req.name].other = @ + 1]

\* mutant: the Service hides a duplicate behind an unknown error
ServiceReturnMasking(c) ==
  /\ svc[c].pc = "returned"
  /\ LET result == IF svc[c].repo_result.kind = "Duplicate" THEN Unknown
                   ELSE svc[c].repo_result
     IN /\ svc' = [svc EXCEPT ![c].pc = "done", ![c].result = result]
        /\ tally' = Tallied(tally, svc[c], result)
  /\ UNCHANGED <<store, lock, mcalls, repository, httpvars, poolvars>>

\* Service::add_pet and Service::find_pet_by_id return what the repository
\* returned
ServiceReturn(c) ==
  /\ svc[c].pc = "returned"
  /\ LET result == svc[c].repo_result
     IN /\ svc' = [svc EXCEPT ![c].pc = "done", ![c].result = result]
        /\ tally' = Tallied(tally, svc[c], result)
  /\ UNCHANGED <<store, lock, mcalls, repository, httpvars, poolvars>>

MockNext ==
  \E c \in Clones :
    \/ \E req \in MockRequests : ServiceAddPetCall(c, req)
    \/ \E pet_id \in MockFindIds : ServiceFindCall(c, pet_id)
    \/ MockLock(c)
    \/ MockContainsKey(c)
    \/ MockInsert(c)
    \/ MockFindValues(c)
    \/ ServiceReturn(c)

(* ------------------------------ the connection pool -------------------- *)
(* Every statement is executed on self.pool(), a &PgPool: the statement     *)
(* takes a connection from the pool when it starts and gives it back when   *)
(* it has run.  An operation is the sequence of its statements; pool is the *)
(* number of connections that are not in use.                               *)
\* PgPoolOptions::new().max_connections(..): the code configures 5
max_connections == 2
\* operations that use the pool at the same time
NumPoolCallers == 3
PoolCallers == 1..NumPoolCallers

\* the statements of add_pet for the request, in the order of the code
Statements(req) ==
  <<"exists">>
  \o (IF IsSome(req.category) THEN <<"category">> ELSE <<>>)
  \o <<"pet">>
  \o [k \in 1..Len(req.photo_urls) |-> "photo"]
  \o [k \in 1..(2 * Len(req.tags)) |-> IF k % 2 = 1 THEN "tag" ELSE "link"]

\* the statements of find_pet_by_id
FindStatements == <<"find_pet", "find_photos", "find_tags">>

\* the operations: add_pet for a request, find_pet_by_id
Operations == {Statements(r) : r \in RaceRequests} \cup {FindStatements}

IdleConn == [pc |-> "idle", todo |-> <<>>, held |-> 0]

\* a caller starts an operation
PoolBegin(c, stmts) ==
  /\ conn[c].pc = "idle"
  /\ conn' = [conn EXCEPT ![c] = [pc |-> "acquire", todo |-> stmts, held |-> 0]]
  /\ UNCHANGED <<pool, repository, httpvars, mockvars>>

\* the next statement takes a connection from the pool, waiting for one
\* while none is free
Acquire(c) ==
  /\ conn[c].pc = "acquire"
  /\ pool > 0
  /\ pool' = pool - 1
  /\ conn' = [conn EXCEPT ![c].pc = "execute", ![c].held = @ + 1]
  /\ UNCHANGED <<repository, httpvars, mockvars>>

\* the wait for a connection times out: the statement fails and `?`
\* returns Unknown
AcquireTimeout(c) ==
  /\ conn[c].pc = "acquire"
  /\ pool = 0
  /\ conn' = [conn EXCEPT ![c].pc = "done", ![c].todo = <<>>]
  /\ pool' = pool + conn[c].held
  /\ UNCHANGED <<repository, httpvars, mockvars>>

\* mutant: the statement has run and the operation keeps its connection
\* while it goes on to the next statement
StatementDoneHolding(c) ==
  /\ conn[c].pc = "execute"
  /\ IF Len(conn[c].todo) > 1
       THEN /\ conn' = [conn EXCEPT ![c].pc = "acquire", ![c].todo = Tail(@)]
            /\ pool' = pool
     ELSE /\ conn' = [conn EXCEPT ![c].pc = "done", ![c].todo = <<>>, ![c].held = 0]
          /\ pool' = pool + conn[c].held
  /\ UNCHANGED <<repository, httpvars, mockvars>>

\* the statement has run: its connection goes back to the pool, and the
\* operation goes on to its next statement or returns after the last
StatementDone(c) ==
  /\ conn[c].pc = "execute"
  /\ pool' = pool + conn[c].held
  /\ conn' = [conn EXCEPT ![c].pc = IF Len(conn[c].todo) > 1 THEN "acquire" ELSE "done",
                          ![c].todo = Tail(@), ![c].held = 0]
  /\ UNCHANGED <<repository, httpvars, mockvars>>

\* the statement has run and the operation returns before its last
\* statement: an error, Duplicate, or no row found
StatementReturns(c) ==
  /\ conn[c].pc = "execute"
  /\ Len(conn[c].todo) > 1
  /\ pool' = pool + conn[c].held
  /\ conn' = [conn EXCEPT ![c].pc = "done", ![c].todo = <<>>, ![c].held = 0]
  /\ UNCHANGED <<repository, httpvars, mockvars>>

PoolNext ==
  \E c \in PoolCallers :
    \/ conn[c].pc = "idle" /\ \E stmts \in Operations : PoolBegin(c, stmts)
    \/ Acquire(c)
    \/ AcquireTimeout(c)
    \/ StatementDone(c)
    \/ StatementReturns(c)

(* ------------------------------ specification -------------------------- *)
\* the relational store is empty and no caller is in a call
StoreInit ==
  /\ pets = <<>>
  /\ categories = <<>>
  /\ tags = <<>>
  /\ pet_photos = <<>>
  /\ pet_tags = <<>>
  /\ call = [c \in Callers |-> IdleCall]
  /\ calls = 0
  /\ failures = 0

\* no request is being handled
\* PostgresClient::new: the pool with all its connections free
PoolInit ==
  /\ pool = max_connections
  /\ conn = [c \in PoolCallers |-> IdleConn]

HttpInit ==
  /\ http = HttpIdle
  /\ unknown_log = {}

\* MockRepository::new, Service::new and its clones
MockInit ==
  /\ store = [n \in {} |-> NoPet]
  /\ lock = 0
  /\ svc = [c \in Clones |-> SvcIdle]
  /\ mcalls = 0
  /\ tally = [n \in MockNames |-> [ok |-> 0, dup |-> 0, other |-> 0]]

Init ==
  /\ schema \in Schemas
  /\ StoreInit
  /\ HttpInit
  /\ MockInit
  /\ PoolInit

Step(c) ==
  \/ ExistenceCheck(c)
  \/ CategoryUpsert(c)
  \/ PetInsert(c)
  \/ PhotoInsert(c)
  \/ TagUpsert(c)
  \/ TagLink(c)
  \/ FindPetRow(c)
  \/ FindPhotos(c)
  \/ FindTags(c)
  \/ StatementFails(c)
  \/ Abandon(c)
  \/ Return(c)

Next ==
  \E c \in Callers :
    \/ \E r \in RaceRequests : AddPet(c, r)
    \/ \E pet_id \in FindIds : FindPetById(c, pet_id)
    \/ Step(c)

Spec == Init /\ [][Next]_vars

\* no call is in progress
Quiet == \A c \in Callers : call[c].pc = "idle"

NextSeq ==
  \E c \in Callers :
    \/ Quiet /\ \E r \in Requests : AddPet(c, r)
    \/ Quiet /\ \E pet_id \in FindIds : FindPetById(c, pet_id)
    \/ Step(c)

\* calls that do not overlap in time
SpecSeq == Init /\ [][NextSeq]_vars

\* the declared constraints where the store is not used
StrictSchema == [keys |-> TRUE, notnull |-> TRUE]

InitAdapters ==
  /\ schema = StrictSchema
  /\ StoreInit
  /\ HttpInit
  /\ MockInit
  /\ PoolInit

\* the HTTP handlers over any implementation of the PetService port
SpecHttp == InitAdapters /\ [][HttpNext]_vars

\* clones of the Service over the in-memory repository
SpecMock == InitAdapters /\ [][MockNext]_vars

\* operations on the pool: a statement that has its connection runs to its
\* end, and a statement waiting for a connection gets one if connections
\* are free again and again (the pool serves its waiters fairly)
PoolFairness ==
  \A c \in PoolCallers :
    /\ WF_vars(StatementDone(c))
    /\ SF_vars(Acquire(c))

SpecPool == InitAdapters /\ [][PoolNext]_vars /\ PoolFairness

(* ------------------------------ properties ----------------------------- *)
\* caller c takes a step
Stepped(c) == call'[c] # call[c]

\* some pet row has the name
RowNamed(name) == \E k \in 1..Len(pets) : pets[k].name = name

\* some pet row has the id
RowWithId(pet_id) == \E k \in 1..Len(pets) : pets[k].id = Some(pet_id)

\* the statements of the frame all succeeded
AllOk(f) == \A k \in 1..Len(f.trace) : f.trace[k].ok

\* s is an initial segment of t
IsPrefix(s, t) == Len(s) <= Len(t) /\ \A k \in 1..Len(s) : s[k] = t[k]

\* C1: when add_pet runs its existence check for a name that a stored pet row
\* has, it returns Duplicate carrying that name, and the call writes nothing:
\* all five tables are the same after the call as before it, whatever the
\* request carries.
C1_DuplicateWritesNothing ==
  [][\A c \in Callers :
       (/\ call[c].pc = "exists"
        /\ RowNamed(call[c].req.name)
        /\ call'[c].trace = <<[stmt |-> "exists", ok |-> TRUE]>>)
       => /\ call'[c].pc = "done"
          /\ call'[c].result = Duplicate(call[c].req.name)
          /\ tables' = tables]_vars

C1_Witness ==
  \E c \in Callers :
    /\ call[c].pc = "done"
    /\ call[c].result.kind = "Duplicate"
    /\ call[c].result.name = call[c].req.name
    /\ IsSome(call[c].req.category)
    /\ call[c].req.tags # <<>>
    /\ call[c].req.photo_urls # <<>>
    /\ \E k \in 1..Len(pets) : pets[k].name = call[c].req.name
                               /\ pets[k].id # call[c].req.id

\* C2: with calls that do not overlap in time, no two rows of the pets table
\* have the same name.
C2_NamesUnique ==
  \A j, k \in 1..Len(pets) : j # k => pets[j].name # pets[k].name

C2_Witness ==
  /\ Quiet
  /\ Len(pets) = 2
  /\ pets[1].name # pets[2].name
  /\ calls = MaxCalls

\* C3: the existence check of an add_pet call looks at the stored pet rows
\* only: it passes, and writes nothing, whenever no pet row has the name,
\* whatever other calls are in flight; so two concurrent calls with one unused
\* name can both pass it before either inserts, both succeed, and leave two
\* pet rows with the same name.
C3_CheckSeesOnlyStoredRows ==
  [][\A c \in Callers :
       (/\ call[c].pc = "exists"
        /\ ~RowNamed(call[c].req.name)
        /\ call'[c].trace = <<[stmt |-> "exists", ok |-> TRUE]>>)
       => /\ call'[c].pc \in {"category", "pet"}
          /\ tables' = tables]_vars

C3_Witness ==
  \E c, d \in Callers :
    /\ c # d
    /\ call[c].op = "add" /\ call[c].result.kind = "Ok"
    /\ call[d].op = "add" /\ call[d].result.kind = "Ok"
    /\ call[c].req.name = call[d].req.name
    /\ \E j, k \in 1..Len(pets) :
         /\ j # k
         /\ pets[j].name = call[c].req.name
         /\ pets[k].name = call[c].req.name
         /\ pets[j].id = call[c].result.pet.id
         /\ pets[k].id = call[d].result.pet.id
         /\ pets[j].id # pets[k].id
    /\ schema.keys

\* C4 (as claimed): every add_pet call whose name no stored pet has, and none
\* of whose statements is made to fail from outside, succeeds, and the returned
\* Pet has the request's name, an id that is set, and status Available when the
\* request leaves the status unspecified.
C4_Claimed ==
  \A c \in Callers :
    (/\ call[c].op = "add"
     /\ call[c].pc = "done"
     /\ failures = 0
     /\ call[c].result.kind # "Duplicate")
    => /\ call[c].result.kind = "Ok"
       /\ call[c].result.pet.name = call[c].req.name
       /\ IsSome(call[c].result.pet.id)
       /\ (IsNone(call[c].req.status)
             => call[c].result.pet.status = Some("Available"))

\* the last n elements of a sequence
LastN(s, n) == SubSeq(s, Len(s) - n + 1, Len(s))

\* C5 (as claimed): after add_pet succeeds, find_pet_by_id on the returned id
\* returns Some(Pet) with the request's name, category, status (Available for
\* an unspecified one), photo URLs in order, and tags as a set.
C5_Claimed ==
  \A c \in Callers :
    (/\ call[c].op = "add"
     /\ call[c].pc = "done"
     /\ call[c].result.kind = "Ok")
    => LET req == call[c].req
           found == FindNow(Unwrap(call[c].result.pet.id))
       IN /\ found.kind = "OkSome"
          /\ found.pet.name = req.name
          /\ found.pet.category = req.category
          /\ found.pet.status = IF IsSome(req.status) THEN req.status
                                ELSE Some("Available")
          /\ found.pet.photo_urls = req.photo_urls
          /\ Range(found.pet.tags) = Range(req.tags)

\* C6: find_pet_by_id called with an id that no pet row has returns Ok(None)
\* after its first statement, and no error, when no statement fails.
C6_AbsentIdGivesNone ==
  \A c \in Callers :
    (/\ call[c].op = "find"
     /\ call[c].pc # "find_pet"
     /\ AllOk(call[c])
     /\ ~RowWithId(call[c].find_id))
    => /\ call[c].pc = "done"
       /\ call[c].result = OkNone
       /\ Len(call[c].trace) = 1

C6_Witness ==
  \E c \in Callers :
    /\ call[c].op = "find"
    /\ call[c].pc = "done"
    /\ call[c].result = OkNone
    /\ ~RowWithId(call[c].find_id)
    /\ Len(pets) = 2

\* C7: no step of find_pet_by_id changes any of the five tables, whatever the
\* id and whatever the outcome.
C7_FindWritesNothing ==
  [][\A c \in Callers :
       (Stepped(c) /\ (call[c].op = "find" \/ call'[c].op = "find"))
       => tables' = tables]_vars

C7_Witness ==
  \E c, d \in Callers :
    /\ call[c].op = "find"
    /\ call[c].pc = "done"
    /\ call[c].result.kind = "OkSome"
    /\ call[c].result.pet.tags # <<>>
    /\ call[d].op = "add"
    /\ call[d].pc \in AddPcs

\* C8 (as claimed): the Pet returned by a successful add_pet mirrors what the
\* call wrote: the id and the status of the pet row, the resolved category id,
\* the photo rows, and for each tag the id of the tag row linked in pet_tags.
C8_Claimed ==
  \A c \in Callers :
    (/\ call[c].op = "add"
     /\ call[c].pc = "done"
     /\ call[c].result.kind = "Ok")
    => LET f == call[c]
           pet == f.result.pet
           row == pets[Len(pets)]
           photos == LastN(pet_photos, Len(f.req.photo_urls))
           links == LastN(pet_tags, Len(f.req.tags))
       IN /\ row.id = pet.id
          /\ row.name = pet.name
          /\ IsSome(pet.category) => Unwrap(pet.category).id = row.category_id
          /\ IsNone(pet.category) => IsNone(row.category_id)
          /\ IsSome(pet.status)
          /\ row.status = Some(to_str(Unwrap(pet.status)))
          /\ Len(pet.photo_urls) = Len(photos)
          /\ \A k \in 1..Len(photos) :
               photos[k] = [pet_id |-> Unwrap(pet.id), url |-> pet.photo_urls[k]]
          /\ Len(pet.tags) = Len(links)
          /\ \A k \in 1..Len(links) :
               /\ links[k].pet_id = Unwrap(pet.id)
               /\ pet.tags[k].id = Some(links[k].tag_id)

\* C9: a statement of add_pet that fails is the last statement of its call,
\* and the call returns Unknown; Unknown is returned only for a failed
\* statement, and Duplicate only by an existence check that found the name.
C9_FailureAborts ==
  \A c \in Callers :
    call[c].op = "add" =>
      LET f == call[c]
      IN /\ \A k \in 1..Len(f.trace) :
              ~f.trace[k].ok
                => k = Len(f.trace) /\ f.pc = "done" /\ f.result = Unknown
         /\ f.result.kind = "Unknown"
              => f.trace # <<>> /\ ~f.trace[Len(f.trace)].ok
         /\ f.result.kind = "Duplicate"
              => /\ f.trace = <<[stmt |-> "exists", ok |-> TRUE]>>
                 /\ f.result.name = f.req.name
                 /\ RowNamed(f.req.name)

C9_Witness ==
  \E c \in Callers :
    /\ call[c].op = "add"
    /\ call[c].pc = "done"
    /\ call[c].result = Unknown
    /\ Len(call[c].trace) = 5
    /\ call[c].trace[5] = [stmt |-> "tag", ok |-> FALSE]
    /\ Len(call[c].req.tags) = 2
    /\ failures = 1

\* C10: the step that stops an add_pet call, a failing statement or the
\* caller abandoning the call, takes back nothing: every row written before
\* it is still in the store after it.
C10_NoRollback ==
  [][\A c \in Callers :
       (/\ call[c].pc \in AddPcs
        /\ \/ call'[c].pc = "idle"
           \/ call'[c].pc = "done" /\ call'[c].result.kind = "Unknown")
       => /\ IsPrefix(pets, pets')
          /\ IsPrefix(pet_photos, pet_photos')
          /\ IsPrefix(pet_tags, pet_tags')
          /\ IsPrefix(categories, categories')
          /\ IsPrefix(tags, tags')]_vars

\* a category row that no pet row refers to, left by a call whose pet insert
\* failed, and a pet row with one of its two photo rows and none of its tag
\* links, left by a call that stopped in its photo loop
C10_Witness ==
  /\ Quiet
  /\ \E k \in 1..Len(categories) :
       \A j \in 1..Len(pets) : pets[j].category_id # categories[k].id
  /\ Len(pets) = 1
  /\ Len(pet_photos) = 1
  /\ pet_tags = <<>>
  /\ failures = 1

(* ------------------------------ properties of the HTTP adapter --------- *)
\* the handler has returned for an add_pet request
AddReturned == http.op = "add" /\ http.pc \in {"respond", "done"}

\* a body that every validating constructor accepts
BodyValid(body) ==
  /\ \E i \in 1..Len(body.name) : body.name[i] \notin WhiteSpace
  /\ body.photo_urls # <<>>
  /\ body.tags # Some(<<>>)
  /\ body.status \in {None, Some("available"), Some("pending"), Some("sold")}

\* C11: in the add_pet handler the service is called only for a body that
\* passed every validation; when a validation fails the handler returns
\* BadRequest, the response is 400 and the service was never called for the
\* request.
C11_ValidationBeforeService ==
  http.op = "add" =>
    /\ http.service_calls > 0 => BodyValid(http.body)
    /\ ~BodyValid(http.body) /\ AddReturned =>
         /\ http.ret.kind = "Err"
         /\ http.ret.error.variant = "BadRequest"
         /\ http.service_calls = 0
         /\ http.outcome.kind = "none"
    /\ ~BodyValid(http.body) /\ http.pc = "done" => http.response.status = 400

\* a request whose status alone is invalid has been answered
C11_Witness ==
  /\ http.op = "add"
  /\ http.pc = "done"
  /\ http.body.status = Some("invalid_status")
  /\ BodyValid([http.body EXCEPT !.status = None])
  /\ http.response.status = 400
  /\ http.service_calls = 0

\* the response data repeats the fields of the pet
Mirrors(data, pet) ==
  /\ data.id = pet.id
  /\ data.name = pet.name
  /\ data.category = pet.category
  /\ data.photo_urls = pet.photo_urls
  /\ data.tags = Some(pet.tags)
  /\ data.status = IF IsSome(pet.status) THEN Some(to_str(Unwrap(pet.status)))
                    ELSE None

\* C12: the add_pet handler answers a Duplicate of the service with 422, a
\* failed validation with 400, an Unknown with 500 and a created pet with
\* 201 and a body that repeats the fields of the returned pet.
C12_OneStatusPerOutcome ==
  http.op = "add" /\ http.pc = "done" =>
    /\ http.response.body.status_code = http.response.status
    /\ ~BodyValid(http.body) => http.response.status = 400
    /\ http.outcome.kind = "Duplicate" => http.response.status = 422
    /\ http.outcome.kind = "Unknown" => http.response.status = 500
    /\ http.outcome.kind = "Ok" =>
         /\ http.response.status = 201
         /\ Mirrors(http.response.body.data, Unwrap(http.outcome.pet))
    /\ http.response.status \in {201, 400, 422, 500}

\* a duplicate name has been answered
C12_Witness ==
  /\ http.op = "add"
  /\ http.pc = "done"
  /\ http.outcome.kind = "Duplicate"
  /\ http.response.status = 422

\* C13: the responses given for Unknown errors are all the same, whatever
\* the cause: status 500 and the generic message.
C13_UnknownResponseIndependentOfCause ==
  \A p, q \in unknown_log :
    /\ p[2] = q[2]
    /\ p[2].status = 500
    /\ p[2].body.data = ApiErrorData(<<"Internal server error">>)

\* unknown errors with two different causes have been answered
C13_Witness == \E p, q \in unknown_log : p[1] # q[1]

Applies(pc) == http.pc = pc /\ http'.pc # pc

\* the constructor returned Err(err): the ? operator leaves the handler
RejectedWith(err) == http'.pc = "respond" /\ http'.parse_error = err

\* C15: Tags::new(None) is Ok with no tags, Tags::new(Some(empty list)) is
\* the error TagsError::Empty, and Tags::new(Some(non-empty list)) is Ok
\* with the given tags in the given order.
C15_TagsNew ==
  [][Applies("tags") =>
       LET given == http.body.tags
       IN /\ IsNone(given) => http'.pc = "status" /\ http'.tags = <<>>
          /\ given = Some(<<>>) => RejectedWith(<<"TagsError::Empty">>)
          /\ IsSome(given) /\ Len(Unwrap(given)) > 0 =>
               /\ http'.pc = "status"
               /\ Len(http'.tags) = Len(Unwrap(given))
               /\ \A i \in 1..Len(Unwrap(given)) : http'.tags[i] = Unwrap(given)[i]]_vars

\* two tags given in the order playful, friendly have been accepted
C15_Witness ==
  /\ http.op = "add"
  /\ http.pc = "status"
  /\ IsSome(http.body.tags)
  /\ Len(http.tags) = 2
  /\ http.tags[1].name = Some("playful")
  /\ http.tags[2].name = Some("friendly")

\* C16: parsing an optional status string gives Available, Pending and
\* Sold for "available", "pending" and "sold", Available for an absent
\* value, and for every other string, "Available" included, the error
\* InvalidStatus that carries the string; the string that to_str gives for
\* a Status parses back to that Status.
C16_StatusParsing ==
  [][Applies("status") =>
       LET given == http.body.status
           parsed == http'.domain_req.status
       IN /\ given = Some("available") => http'.pc = "service" /\ parsed = Some("Available")
          /\ given = Some("pending") => http'.pc = "service" /\ parsed = Some("Pending")
          /\ given = Some("sold") => http'.pc = "service" /\ parsed = Some("Sold")
          /\ IsNone(given) => http'.pc = "service" /\ parsed = Some("Available")
          /\ given \notin {None, Some("available"), Some("pending"), Some("sold")} =>
               RejectedWith(<<"StatusError::InvalidStatus", Unwrap(given)>>)
          /\ \A st \in Status :
               given = Some(to_str(st)) => http'.pc = "service" /\ parsed = Some(st)]_vars

\* the capitalized spelling has been refused
C16_Witness ==
  /\ http.op = "add"
  /\ http.pc = "respond"
  /\ http.body.status = Some("Available")
  /\ http.parse_error = <<"StatusError::InvalidStatus", "Available">>

\* C17: PetName::new is the error PetNameError::Empty exactly when the
\* name has no character other than white space, and otherwise Ok with the
\* name as given, surrounding white space included.
C17_PetNameNew ==
  [][Applies("name") =>
       LET given == http.body.name
           blank == \A i \in 1..Len(given) : given[i] \in WhiteSpace
       IN /\ blank <=> RejectedWith(<<"PetNameError::Empty">>)
          /\ ~blank => http'.pc = "category" /\ http'.name = given]_vars

\* a name with white space before and after it has been accepted unchanged
C17_Witness ==
  /\ http.op = "add"
  /\ http.pc = "category"
  /\ http.body.name = <<" ", "x", " ">>
  /\ http.name = <<" ", "x", " ">>

(* ------------------------------ properties of the Service -------------- *)
\* clone c enters or leaves the Service (the steps that are the Service's
\* own, not the repository's)
ServiceStep(c) ==
  /\ svc'[c] # svc[c]
  /\ svc[c].pc \in {"idle", "done", "returned"}

InCriticalSection == {c \in Clones : svc[c].pc \in {"check", "insert", "values"}}

\* C19: the clones of a Service over the in-memory repository exclude one
\* another from the shared map, so that of the add_pet calls with one name
\* at most one returns Ok, every other one returns Duplicate of that name,
\* and once all calls have returned exactly one call per requested name has
\* succeeded, whatever other names were added.
C19_OneWinnerPerName ==
  /\ Cardinality(InCriticalSection) <= 1
  /\ \A n \in MockNames :
       /\ tally[n].ok <= 1
       /\ tally[n].other = 0
       /\ tally[n].dup > 0 => n \in DOMAIN store
       /\ (\A c \in Clones : svc[c].pc \in {"idle", "done"})
            /\ tally[n].ok + tally[n].dup > 0 => tally[n].ok = 1

\* two calls with one name have returned, one Ok and one Duplicate, and a
\* call with the other name has succeeded
C19_Witness ==
  /\ tally["Luna"].ok = 1
  /\ tally["Luna"].dup = 1
  /\ tally["Rex"].ok = 1
  /\ \E c \in Clones : svc[c].pc = "done" /\ svc[c].result = Duplicate("Luna")

(* ------------------------------ properties of the pet rows ------------- *)
\* C20: in every reachable state the status column of every pet row is one
\* of "available", "pending" and "sold", also for the rows of requests
\* whose status is None.
C20_Claimed ==
  \A k \in 1..Len(pets) :
    pets[k].status \in {Some("available"), Some("pending"), Some("sold")}

(* ------------------------------ properties of tags and categories ------ *)
\* the rows of the tags table that carry the name
TagRowsNamed(name) == {k \in 1..Len(tags) : tags[k].name = name}

\* C21: the tags table never holds two rows with one name; a tag upsert for
\* a name that is stored leaves the table as it is and resolves to the
\* stored row's id, whatever id the request gives; and the pet_tags row
\* then inserted links the call's pet to the id of the row of that name.
C21_TagIdentityIsName ==
  [][/\ \A j, k \in 1..Len(tags') :
          j # k /\ IsSome(tags'[j].name) => tags'[j].name # tags'[k].name
     /\ \A c \in Callers :
          /\ call[c].pc = "tag" /\ call'[c].pc = "link" =>
               LET tag == call[c].req.tags[call[c].i]
               IN \A k \in TagRowsNamed(tag.name) :
                    /\ tags' = tags
                    /\ Some(call'[c].tag_id) = tags[k].id
          /\ call[c].pc = "link" /\ Stepped(c) /\ pet_tags' # pet_tags =>
               LET tag == call[c].req.tags[call[c].i]
               IN /\ Len(pet_tags') = Len(pet_tags) + 1
                  /\ pet_tags'[Len(pet_tags')].pet_id = call[c].pet_id
                  /\ \E k \in TagRowsNamed(tag.name) :
                       Some(pet_tags'[Len(pet_tags')].tag_id) = tags[k].id]_vars

\* a request gave the tag friendly the id 3 while it was stored under the
\* id 1, and the pet has been linked to the tag 1
C21_Witness ==
  \E c \in Callers :
    /\ call[c].pc = "done" /\ call[c].result.kind = "Ok"
    /\ call[c].req.tags = <<with_values(3, "friendly")>>
    /\ \E k \in 1..Len(tags) : tags[k] = with_values(1, "friendly")
    /\ \E k \in 1..Len(pet_tags) :
         pet_tags[k] = [pet_id |-> call[c].pet_id, tag_id |-> 1]
    /\ \A k \in 1..Len(tags) : tags[k].id # Some(3)

NoCategorySupplied(req) ==
  \/ req.category = None
  \/ req.category = Some(CategoryTryFrom(None).value)

\* C23: an add_pet whose request arrives with no category, directly or
\* through the HTTP adapter's validation, issues no category upsert, and
\* the pet row it inserts has an empty category_id.
C23_Claimed ==
  \A c \in Callers :
    call[c].op = "add" /\ NoCategorySupplied(call[c].req) =>
      /\ call[c].pc # "category"
      /\ \A k \in 1..Len(call[c].trace) : call[c].trace[k].stmt # "category"
      /\ call[c].pc \in {"photo", "tag", "link"} =>
           \E k \in 1..Len(pets) :
             pets[k].name = call[c].req.name /\ IsNone(pets[k].category_id)

(* ------------------------------ properties of the stored rows ---------- *)
CategoryIds == {categories[k].id : k \in 1..Len(categories)}
TagNames == {tags[k].name : k \in 1..Len(tags)}

\* C24: no step removes a category row or a tag row: the set of stored
\* category ids and the set of stored tag names only grow and neither
\* table gets shorter; a category row or a tag row may be referenced by
\* several pets (the witness).
C24_ReferenceRowsOnlyGrow ==
  [][/\ CategoryIds \subseteq CategoryIds'
     /\ TagNames \subseteq TagNames'
     /\ Len(categories) <= Len(categories')
     /\ Len(tags) <= Len(tags')]_vars

\* two pets point to the category row 1, and two pets are linked to the
\* tag row 1
C24_Witness ==
  /\ Len(pets) = 2
  /\ IsSome(pets[1].id) /\ IsSome(pets[2].id) /\ pets[1].id # pets[2].id
  /\ pets[1].category_id = Some(1) /\ pets[2].category_id = Some(1)
  /\ Len(categories) = 1 /\ categories[1].id = Some(1)
  /\ Cardinality({k \in 1..Len(tags) : tags[k].id = Some(1)}) = 1
  /\ \E j, k \in 1..Len(pet_tags) :
       /\ pet_tags[j].pet_id = Unwrap(pets[1].id)
       /\ pet_tags[k].pet_id = Unwrap(pets[2].id)
       /\ pet_tags[j].tag_id = 1 /\ pet_tags[k].tag_id = 1

\* the call c has just had its pet insert succeed
PetInserted(c) ==
  /\ call[c].pc = "pet"
  /\ Len(call'[c].trace) = Len(call[c].trace) + 1
  /\ call'[c].trace[Len(call'[c].trace)] = [stmt |-> "pet", ok |-> TRUE]

\* C25: a pet row is created once and never changed: every step keeps the
\* stored pet rows as they are (id, name, category_id, status) and removes
\* none, a row is added only by the pet insert of an add_pet, and the pet
\* id the call goes on with and returns is the id of the row it inserted.
C25_PetRowWrittenOnce ==
  [][/\ IsPrefix(pets, pets')
     /\ Len(pets') <= Len(pets) + 1
     /\ Len(pets') > Len(pets) =>
          \E c \in Callers : call[c].pc = "pet" /\ Stepped(c)
     /\ \A c \in Callers :
          /\ PetInserted(c) =>
               /\ Len(pets') = Len(pets) + 1
               /\ pets'[Len(pets')].id = Some(call'[c].pet_id)
               /\ pets'[Len(pets')].name = call[c].req.name
               /\ pets'[Len(pets')].category_id = call[c].category_id
          /\ call'[c].op = "add" /\ call'[c].result.kind = "Ok" =>
               call'[c].result.pet.id = Some(call'[c].pet_id)]_vars

\* a second add_pet has gone through after the first pet was stored, it
\* returned the id of the row it inserted, and both rows are in place
C25_Witness ==
  /\ Len(pets) = 2
  /\ IsSome(pets[1].id) /\ IsSome(pets[2].id) /\ pets[1].id # pets[2].id
  /\ pets[1].name # pets[2].name
  /\ pets[1].status = Some("sold")
  /\ \E c \in Callers :
       /\ call[c].op = "add" /\ call[c].pc = "done" /\ call[c].result.kind = "Ok"
       /\ call[c].req.name = pets[2].name
       /\ call[c].result.pet.id = pets[2].id

\* the status strings the read side knows
StoredStatuses == {Some("available"), Some("pending"), Some("sold")}

\* the call c has just had its pet query answered
PetQueried(c) ==
  /\ call[c].pc = "find_pet"
  /\ Len(call'[c].trace) = Len(call[c].trace) + 1
  /\ call'[c].trace[Len(call'[c].trace)] = [stmt |-> "find_pet", ok |-> TRUE]

\* C26: find_pet_by_id decodes the stored status leniently: when the pet
\* query has read a row whose status is not one of "available", "pending"
\* and "sold", the call goes on with a pet whose status is Available
\* instead of ending in an error, and a pet that is returned never has
\* the status None.
C26_Claimed ==
  [][\A c \in Callers :
       /\ PetQueried(c) =>
            \A k \in 1..Len(pets) :
              /\ pets[k].id = Some(call[c].find_id)
              /\ \A j \in 1..(k - 1) : pets[j].id # pets[k].id
              /\ pets[k].status \notin StoredStatuses
              => /\ call'[c].pc = "find_photos"
                 /\ call'[c].pet.status = Some("Available")
       /\ call'[c].op = "find" /\ call'[c].result.kind = "OkSome" =>
            IsSome(call'[c].result.pet.status)]_vars

(* ------------------------------ properties of the statement order ------ *)
\* the call c returns Ok in this step
ReturnsOk(c) ==
  /\ call[c].op = "add" /\ call[c].pc # "done"
  /\ call'[c].pc = "done" /\ call'[c].result.kind = "Ok"

\* C27: an add_pet that returns Ok has issued, each once, with success and
\* in this order: the existence check, the category upsert if the request
\* has a category, the pet insert, one photo insert per URL, and per tag
\* one tag upsert and one link insert; when it returns, the last photo
\* rows are the request's URLs in request order with repetitions kept, and
\* the last link rows are one per tag, all under the id of the pet.
C27_StatementsOnceInOrder ==
  [][\A c \in Callers :
       ReturnsOk(c) =>
         LET req == call[c].req
             stmts == Statements(req)
             n == Len(req.photo_urls)
             m == Len(req.tags)
             id == call'[c].pet_id
         IN /\ call'[c].trace = [k \in 1..Len(stmts) |-> [stmt |-> stmts[k], ok |-> TRUE]]
            /\ Len(pet_photos') >= n
            /\ LastN(pet_photos', n) = [k \in 1..n |-> [pet_id |-> id, url |-> req.photo_urls[k]]]
            /\ Len(pet_tags') >= m
            /\ \A k \in 1..m : LastN(pet_tags', m)[k].pet_id = id
            /\ Len(pets') = 1 =>
                 /\ Cardinality({k \in 1..Len(pet_photos') : pet_photos'[k].pet_id = id}) = n
                 /\ Cardinality({k \in 1..Len(pet_tags') : pet_tags'[k].pet_id = id}) = m]_vars

\* an add_pet with the same URL twice has returned Ok and the pet has the
\* two rows
C27_Witness ==
  \E c \in Callers :
    /\ call[c].op = "add" /\ call[c].pc = "done" /\ call[c].result.kind = "Ok"
    /\ call[c].req.photo_urls = <<"p1.jpg", "p1.jpg">>
    /\ IsSome(call[c].req.category)
    /\ Len(call[c].trace) = 5
    /\ SelectPhotos(call[c].pet_id) = <<"p1.jpg", "p1.jpg">>

(* ------------------------------ properties of concurrent reads --------- *)
\* the call c has just had a statement of the kind stmt succeed
Wrote(c, stmt) ==
  /\ call[c].pc = stmt
  /\ Len(call'[c].trace) = Len(call[c].trace) + 1
  /\ call'[c].trace[Len(call'[c].trace)] = [stmt |-> stmt, ok |-> TRUE]

\* C28: the rows of a pet become visible one statement at a time: at every
\* photo insert and every tag-link insert of an add_pet, a read of the pet
\* id just before the statement returns Some(Pet) with fewer photo URLs or
\* tags than the request carries, and a read just after it returns a
\* different pet; so a find_pet_by_id running beside the add_pet can
\* return the partly written pet (the witness).
C28_PartialAggregateVisible ==
  [][\A c \in Callers :
       LET id == call[c].pet_id
           before == FindNow(id)
           after == FindNow(id)'
       IN /\ Wrote(c, "photo") =>
               /\ before.kind = "OkSome" /\ after.kind = "OkSome"
               /\ Len(before.pet.photo_urls) < Len(after.pet.photo_urls)
               /\ \E k \in 1..Len(pets) : /\ pets[k].name = call[c].req.name
                                          /\ pets[k].id = Some(id)
          /\ Wrote(c, "link") =>
               /\ before.kind = "OkSome" /\ after.kind = "OkSome"
               /\ Len(before.pet.tags) < Len(after.pet.tags)]_vars

\* a find_pet_by_id has returned the pet of an add_pet that is still
\* writing, without the photo URL and the tag of the request
C28_Witness ==
  \E c, d \in Callers :
    /\ call[c].op = "add" /\ call[c].pc = "photo"
    /\ call[c].req.photo_urls = <<"p1.jpg">>
    /\ call[d].op = "find" /\ call[d].pc = "done"
    /\ call[d].find_id = call[c].pet_id
    /\ call[d].result.kind = "OkSome"
    /\ call[d].result.pet.name = call[c].req.name
    /\ call[d].result.pet.photo_urls = <<>>
    /\ call[d].result.pet.tags = <<>>
    /\ Len(pets) = 1

(* ------------------------------ properties of failed calls ------------- *)
\* the call c returns Unknown in this step, from a statement after its
\* pet insert
FailsAfterPet(c) ==
  /\ call[c].op = "add" /\ call[c].pc \in {"photo", "tag", "link"}
  /\ call'[c].pc = "done" /\ call'[c].result.kind = "Unknown"

\* the pets rows with the name and the id
PetRows(name, id) ==
  {k \in 1..Len(pets) : pets[k].name = name /\ pets[k].id = Some(id)}

\* C29: when add_pet returns Unknown from a photo insert, a tag upsert or
\* a tag-link insert, the pet row it inserted stays stored; an existence
\* check that finds a row of the name makes the add_pet return
\* Duplicate{name}, whether or not an add_pet of the name ever returned
\* Ok; and find_pet_by_id on the id of the row returns Some(Pet).
C29_Claimed ==
  [][\A c \in Callers :
       /\ FailsAfterPet(c) =>
            /\ PetRows(call[c].req.name, call[c].pet_id)' # {}
            /\ FindNow(call[c].pet_id)'.kind = "OkSome"
       /\ Wrote(c, "exists") /\ (\E k \in 1..Len(pets) : pets[k].name = call[c].req.name) =>
            /\ call'[c].pc = "done"
            /\ call'[c].result = Duplicate(call[c].req.name)]_vars

(* ------------------------------ properties of the pool ----------------- *)
\* the operations that hold a connection
Holders == {c \in PoolCallers : conn[c].held > 0}

\* C30: operations cannot deadlock on the pool: an operation holds at most
\* one connection, and none while it waits for one or when it is not
\* running a statement, so that the connections in use and the free ones
\* add up to the size of the pool; and every operation that has started
\* eventually returns.
C30_NoPoolDeadlock ==
  /\ [](/\ \A c \in PoolCallers :
            /\ conn[c].held <= 1
            /\ conn[c].pc # "execute" => conn[c].held = 0
        /\ pool + Cardinality(Holders) = max_connections)
  /\ \A c \in PoolCallers : (conn[c].pc = "acquire") ~> (conn[c].pc = "done")

\* the pool is used up by two operations and a third waits for a
\* connection in the middle of its statements
C30_Witness ==
  /\ pool = 0
  /\ \E c \in PoolCallers :
       /\ conn[c].pc = "acquire"
       /\ conn[c].todo = <<"photo", "tag", "link">>
       /\ \A d \in PoolCallers \ {c} : conn[d].pc = "execute"

====
